---- MODULE Spec2Model ----
(***************************************************************************)
(* Model of the tag editing component Tags                                 *)
(* (chroma-ui/src/components/Explorer/Tags.tsx).                            *)
(*                                                                         *)
(* A JavaScript string is a sequence of one-character strings, so that     *)
(* split, trim and join are computed character by character.  One action   *)
(* is one React event handler (or the effect that follows a change of the  *)
(* tags prop) together with the render that follows it.                    *)
(***************************************************************************)
EXTENDS Integers, Sequences, FiniteSets

\* ---------------------------------------------------------------- bounds
\* longest value the user types into the textarea
MaxLen == 2
\* longest upstream tag list
MaxTags == 2
\* most add/remove promises outstanding at once
MaxPending == 3
\* longest buffer the reconciliation on its own is run on
DiffLen == 3

\* characters of the model's strings
Chars == {"a", "b", ",", " "}
Whitespace == {" "}
Comma == ","
\* names the upstream tag list draws from
UpstreamNames == {<<"a">>, <<"b">>}
\* the record the session is about; the component never inspects it
DatapointIds == {1}

\* every textarea value of up to n characters
Strings(n) == UNION {[1..k -> Chars] : k \in 0..n}

\* what one edit of the textarea makes of its value s: a character typed at
\* the end (up to n characters), the last character deleted, or the field
\* cleared; every string of up to n characters is some sequence of such edits
Edits(s, n) ==
  {Append(s, c) : c \in IF Len(s) < n THEN Chars ELSE {}}
    \cup {SubSeq(s, 1, Len(s) - 1) : k \in IF Len(s) > 0 THEN {0} ELSE {}}
    \cup {<<>>}
TagObjects == {[tag |-> [name |-> nm]] : nm \in UpstreamNames}
TagLists(n) == UNION {[1..k -> TagObjects] : k \in 0..n}

\* ------------------------------------------------------ string functions
Min(S) == CHOOSE x \in S : \A y \in S : x <= y
Max(S) == CHOOSE x \in S : \A y \in S : x >= y

\* String.prototype.split(",")
RECURSIVE Split(_)
Split(s) ==
  IF \A i \in 1..Len(s) : s[i] # Comma
  THEN <<s>>
  ELSE LET i == Min({j \in 1..Len(s) : s[j] = Comma})
       IN  <<SubSeq(s, 1, i - 1)>> \o Split(SubSeq(s, i + 1, Len(s)))

\* variant: only leading whitespace is stripped (trimStart)
TrimStart(s) ==
  LET nz == {i \in 1..Len(s) : s[i] \notin Whitespace}
  IN  IF nz = {} THEN <<>> ELSE SubSeq(s, Min(nz), Len(s))

\* String.prototype.trim()
Trim(s) ==
  LET nz == {i \in 1..Len(s) : s[i] \notin Whitespace}
  IN  IF nz = {} THEN <<>> ELSE SubSeq(s, Min(nz), Max(nz))

\* Array.prototype.join(", ")
RECURSIVE Join(_)
Join(arr) ==
  IF Len(arr) = 0 THEN <<>>
  ELSE IF Len(arr) = 1 THEN arr[1]
  ELSE arr[1] \o <<Comma, " ">> \o Join(Tail(arr))

\* Array.prototype.includes
Includes(arr, x) == \E i \in 1..Len(arr) : arr[i] = x

\* str.split(",").map(tag => tag.trim())
SplitTrim(s) == LET p == Split(s) IN [i \in 1..Len(p) |-> Trim(p[i])]

\* tags.map(tag => tag.tag.name)
TagStrings(ts) == [i \in 1..Len(ts) |-> ts[i].tag.name]

\* variant: elements are compared position by position
WithoutPositional(a, b) ==
  LET idx == SelectSeq([i \in 1..Len(a) |-> i],
                       LAMBDA i : i > Len(b) \/ b[i] # a[i])
  IN  [k \in 1..Len(idx) |-> a[idx[k]]]

\* a.filter(x => !b.includes(x))
Without(a, b) == SelectSeq(a, LAMBDA x : ~Includes(b, x))

\* variant: the filter runs over the other array
WithinSwapped(a, b) == SelectSeq(b, LAMBDA x : Includes(a, x))

\* a.filter(x => b.includes(x))
Within(a, b) == SelectSeq(a, LAMBDA x : Includes(b, x))

\* ------------------------------------------------------------------ state
VARIABLES
  tags,               \* prop: the upstream tag list, objects {tag: {name}}
  datapointId,        \* prop: the record the requests are about
  isEditing,          \* useState(false)
  isUpdating,         \* useState(false), drives the spinner
  originalTagString,  \* useState('')
  tagString,          \* useState(''), the textarea's value
  tagsArray,          \* useState([]), the tags shown
  pending,            \* number of addTag / unTag promises not yet settled
  calls,              \* the addTag / unTag calls made by the last handler
  lastEvent,          \* the handler that ran last
  entry               \* the edit in progress: tagsArray at the click, and its path

vars == <<tags, datapointId, isEditing, isUpdating, originalTagString,
          tagString, tagsArray, pending, calls, lastEvent, entry>>

\* path: "clicked" right after the click, "edited" once the user changed the
\* buffer, "reinit" once the upstream list changed during the edit, "retyped"
\* once the user changed the buffer after that
NoEntry == [tags |-> <<>>, path |-> "none"]

\* const variables = { tagName: tagToAdd, datapointIds: [datapointId] }
Variables(name, id) == [tagName |-> name, datapointIds |-> <<id>>]

\* variant: one request per distinct name (first occurrences only)
RequestsDeduped(kind, names, id) ==
  LET first == SelectSeq([i \in 1..Len(names) |-> i],
                         LAMBDA i : \A j \in 1..(i - 1) : names[j] # names[i])
  IN  [k \in 1..Len(first) |->
         [kind |-> kind, variables |-> Variables(names[first[k]], id)]]

\* add.map(tagToAdd => addTag(variables)) / remove.map(... unTag(variables))
Requests(kind, names, id) ==
  [i \in 1..Len(names) |-> [kind |-> kind, variables |-> Variables(names[i], id)]]

\* the state after the component mounted and its effect ran once
Init ==
  /\ tags \in TagLists(MaxTags)
  /\ datapointId \in DatapointIds
  /\ isEditing = FALSE
  /\ isUpdating = FALSE
  /\ tagsArray = TagStrings(tags)
  /\ tagString = Join(TagStrings(tags))
  /\ originalTagString = Join(TagStrings(tags))
  /\ pending = 0
  /\ calls = <<>>
  /\ lastEvent = "init"
  /\ entry = NoEntry

\* variant: the effect leaves the buffer of an edit in progress alone
useEffectKeepsBuffer(newTags) ==
  LET tagStrings == TagStrings(newTags)
      allTags == Join(tagStrings)
  IN  /\ tags' = newTags
      /\ tagsArray' = tagStrings
      /\ tagString' = IF isEditing THEN tagString ELSE allTags
      /\ originalTagString' = allTags
      /\ calls' = <<>>
      /\ lastEvent' = "reinit"
      /\ entry' = IF isEditing THEN [tags |-> <<>>, path |-> "reinit"] ELSE NoEntry
      /\ UNCHANGED <<datapointId, isEditing, isUpdating, pending>>

\* variant: the effect also leaves edit mode
useEffectExitsEditing(newTags) ==
  LET tagStrings == TagStrings(newTags)
      allTags == Join(tagStrings)
  IN  /\ tags' = newTags
      /\ tagsArray' = tagStrings
      /\ tagString' = allTags
      /\ originalTagString' = allTags
      /\ isEditing' = FALSE
      /\ calls' = <<>>
      /\ lastEvent' = "reinit"
      /\ entry' = IF isEditing THEN [tags |-> <<>>, path |-> "reinit"] ELSE NoEntry
      /\ UNCHANGED <<datapointId, isUpdating, pending>>

\* the effect on [tags]: the host passes a new tag list
useEffect(newTags) ==
  LET tagStrings == TagStrings(newTags)
      allTags == Join(tagStrings)
  IN  /\ tags' = newTags
      /\ tagsArray' = tagStrings
      /\ tagString' = allTags
      /\ originalTagString' = allTags
      /\ calls' = <<>>
      /\ lastEvent' = "reinit"
      /\ entry' = IF isEditing THEN [tags |-> <<>>, path |-> "reinit"] ELSE NoEntry
      /\ UNCHANGED <<datapointId, isEditing, isUpdating, pending>>

\* variant: the click takes the buffer as the snapshot
onClickTakesSnapshot ==
  /\ ~isEditing
  /\ isEditing' = ~isEditing
  /\ originalTagString' = tagString
  /\ calls' = <<>>
  /\ lastEvent' = "click"
  /\ entry' = [tags |-> tagsArray, path |-> "clicked"]
  /\ UNCHANGED <<tags, datapointId, isUpdating, tagString, tagsArray, pending>>

\* Box.onClick: setIsEditing(!isEditing); the Box is rendered when not editing
onClick ==
  /\ ~isEditing
  /\ isEditing' = ~isEditing
  /\ calls' = <<>>
  /\ lastEvent' = "click"
  /\ entry' = [tags |-> tagsArray, path |-> "clicked"]
  /\ UNCHANGED <<tags, datapointId, isUpdating, originalTagString,
                 tagString, tagsArray, pending>>

\* Textarea.onChange -> checkAndSetName; the Textarea is rendered when editing
checkAndSetName(value) ==
  /\ isEditing
  /\ tagString' = value
  /\ calls' = <<>>
  /\ lastEvent' = "change"
  /\ entry' = IF entry.path = "clicked" THEN [entry EXCEPT !.path = "edited"]
              ELSE IF entry.path = "reinit" THEN [entry EXCEPT !.path = "retyped"]
              ELSE entry
  /\ UNCHANGED <<tags, datapointId, isEditing, isUpdating,
                 originalTagString, tagsArray, pending>>

\* variant: the remove requests are issued before the add requests
onSubmitNameRemovesFirst ==
  LET newTagsArray == SplitTrim(tagString)
      originalTagsArray == SplitTrim(originalTagString)
      remove == Without(originalTagsArray, newTagsArray)
      add == Without(newTagsArray, originalTagsArray)
      issued == Requests("remove", remove, datapointId)
                  \o Requests("add", add, datapointId)
  IN  /\ isEditing
      /\ isEditing' = FALSE
      /\ lastEvent' = "submit"
      /\ IF tagString = originalTagString
         THEN /\ calls' = <<>>
              /\ UNCHANGED <<tagsArray, pending>>
         ELSE /\ pending + Len(issued) <= MaxPending
              /\ calls' = issued
              /\ pending' = pending + Len(issued)
              /\ tagsArray' = newTagsArray
      /\ UNCHANGED <<tags, datapointId, isUpdating, originalTagString,
                     tagString, entry>>

\* variant: the requests are issued but the parsed buffer is not adopted
onSubmitNameKeepsTags ==
  LET newTagsArray == SplitTrim(tagString)
      originalTagsArray == SplitTrim(originalTagString)
      remove == Without(originalTagsArray, newTagsArray)
      add == Without(newTagsArray, originalTagsArray)
      issued == Requests("add", add, datapointId)
                  \o Requests("remove", remove, datapointId)
  IN  /\ isEditing
      /\ isEditing' = FALSE
      /\ lastEvent' = "submit"
      /\ IF tagString = originalTagString
         THEN /\ calls' = <<>>
              /\ UNCHANGED pending
         ELSE /\ pending + Len(issued) <= MaxPending
              /\ calls' = issued
              /\ pending' = pending + Len(issued)
      /\ UNCHANGED <<tags, datapointId, isUpdating, originalTagString,
                     tagString, tagsArray, entry>>

\* Textarea.onChange: (e) => checkAndSetName(e, e.target.value), for one edit
\* of the current value
onChange == \E value \in Edits(tagString, MaxLen) : checkAndSetName(value)

\* form.onSubmit / Enter in the Textarea (onKeyPress); the form is rendered
\* when editing.  The number of outstanding promises is unbounded in the
\* code; the model lets a submit run while it stays within MaxPending.
onSubmitName ==
  LET newTagsArray == SplitTrim(tagString)
      originalTagsArray == SplitTrim(originalTagString)
      remove == Without(originalTagsArray, newTagsArray)
      add == Without(newTagsArray, originalTagsArray)
      keep == Within(originalTagsArray, newTagsArray)
      issued == Requests("add", add, datapointId)
                  \o Requests("remove", remove, datapointId)
  IN  /\ isEditing
      /\ isEditing' = FALSE
      /\ lastEvent' = "submit"
      /\ IF tagString = originalTagString
         THEN /\ calls' = <<>>
              /\ UNCHANGED <<tagsArray, pending>>
         ELSE /\ pending + Len(issued) <= MaxPending
              /\ calls' = issued
              /\ pending' = pending + Len(issued)
              /\ tagsArray' = newTagsArray
      /\ UNCHANGED <<tags, datapointId, isUpdating, originalTagString,
                     tagString, entry>>

\* variant: losing focus saves the buffer locally
handleBlurCommits ==
  /\ isEditing
  /\ isEditing' = FALSE
  /\ tagsArray' = SplitTrim(tagString)
  /\ tagString' = originalTagString
  /\ calls' = <<>>
  /\ lastEvent' = "blur"
  /\ UNCHANGED <<tags, datapointId, isUpdating, originalTagString,
                 pending, entry>>

\* Textarea.onBlur
handleBlur ==
  /\ isEditing
  /\ isEditing' = FALSE
  /\ tagString' = originalTagString
  /\ calls' = <<>>
  /\ lastEvent' = "blur"
  /\ UNCHANGED <<tags, datapointId, isUpdating, originalTagString,
                 tagsArray, pending, entry>>

\* variant: a failed request puts the upstream tags back
onResultRollback(ok) ==
  /\ pending > 0
  /\ pending' = pending - 1
  /\ calls' = <<>>
  /\ lastEvent' = "settled"
  /\ entry' = IF isEditing THEN entry ELSE NoEntry
  /\ tagsArray' = IF ok THEN tagsArray ELSE TagStrings(tags)
  /\ UNCHANGED <<tags, datapointId, isEditing, isUpdating,
                 originalTagString, tagString>>

\* addTag(variables).then(result => {}) / unTag(variables).then(result => {}):
\* one outstanding promise settles, with a result (ok) or with an error; the
\* callback ignores which
onResult(ok) ==
  /\ pending > 0
  /\ pending' = pending - 1
  /\ calls' = <<>>
  /\ lastEvent' = "settled"
  /\ entry' = IF isEditing THEN entry ELSE NoEntry
  /\ UNCHANGED <<tags, datapointId, isEditing, isUpdating,
                 originalTagString, tagString, tagsArray>>

Next ==
  \/ \E newTags \in TagLists(MaxTags) : useEffect(newTags)
  \/ onClick
  \/ onChange
  \/ onSubmitName
  \/ handleBlur
  \/ \E ok \in BOOLEAN : onResult(ok)

Spec == Init /\ [][Next]_vars

\* The reconciliation on its own: the component is mounted on any upstream
\* list, clicked, and any buffer of up to DiffLen characters is typed; the
\* only step is the submit.
InitDiff ==
  /\ tags \in TagLists(MaxTags)
  /\ datapointId \in DatapointIds
  /\ isEditing = TRUE
  /\ isUpdating = FALSE
  /\ tagsArray = TagStrings(tags)
  /\ tagString \in Strings(DiffLen)
  /\ originalTagString = Join(TagStrings(tags))
  /\ pending = 0
  /\ calls = <<>>
  /\ lastEvent = "change"
  /\ entry = [tags |-> TagStrings(tags), path |-> "edited"]

NextDiff == onSubmitName

SpecDiff == InitDiff /\ [][NextDiff]_vars


\* ----------------------------------------------------------------- claims
\* the tag names the last handler sent in requests of one kind
RequestNames(kind) ==
  {calls[i].variables.tagName : i \in {j \in 1..Len(calls) : calls[j].kind = kind}}

\* how often x occurs in the sequence seq
Count(seq, x) == Cardinality({i \in 1..Len(seq) : seq[i] = x})

\* how many requests of one kind the last handler sent for the name t
CountCalls(kind, t) ==
  Cardinality({i \in 1..Len(calls) :
                 calls[i].kind = kind /\ calls[i].variables.tagName = t})

Elements(seq) == {seq[i] : i \in 1..Len(seq)}

\* the last handler was a submit that the guard did not short-circuit
Submitted == lastEvent = "submit" /\ tagString # originalTagString

\* the edit that ended (or is in progress) saw no upstream change
CleanEdit == entry.path \in {"clicked", "edited"}

\* b is a reordering of a
IsPermutation(a, b) ==
  /\ Len(a) = Len(b)
  /\ \A t \in Elements(a) \cup Elements(b) : Count(a, t) = Count(b, t)

\* C1: a submit with the buffer textually identical to what it was at the
\* click that entered edit mode issues no add and no remove request.  Stated
\* for the edits in which the buffer was not touched after the click
\* (path "clicked"), where it is identical to its value at entry.
C1_NoOpGuard ==
  (lastEvent = "submit" /\ entry.path = "clicked") => calls = <<>>

\* C2: click, any number of buffer changes, then blur: the canonical tags
\* are those shown at the click, no request was issued on the way, and the
\* blur ends in Viewing.
C2_DiscardPath ==
  (CleanEdit /\ lastEvent \in {"click", "change", "blur"}) =>
     /\ tagsArray = entry.tags
     /\ calls = <<>>
     /\ (lastEvent = "blur" => ~isEditing)

C2_Witness ==
  /\ lastEvent = "blur"
  /\ entry.path = "edited"
  /\ ~isEditing
  /\ tagsArray # TagStrings(tags)

\* C3: a submit that is not short-circuited removes exactly the tags of the
\* canonical set shown at the click whose text is not in the parsed buffer,
\* and adds exactly the tags of the parsed buffer whose text is not in that
\* canonical set.  Stated for the edits without an upstream change, where
\* entry.tags is the canonical set at the click.
C3_DiffAgainstCanonicalAtEntry ==
  (Submitted /\ CleanEdit) =>
     LET edited == SplitTrim(tagString)
     IN  /\ RequestNames("remove") =
              {t \in Elements(entry.tags) : ~Includes(edited, t)}
         /\ RequestNames("add") =
              {t \in Elements(edited) : ~Includes(entry.tags, t)}

\* C4: in Viewing the edit buffer is the ", "-joined canonical tag set.
C4_ViewingBufferIsSerializedTags ==
  ~isEditing => tagString = Join(tagsArray)

\* C5: right after a submit that is not short-circuited the session is in
\* Viewing, the canonical tags are the parsed buffer, and every request the
\* submit issued is still outstanding.
C5_OptimisticUpdate ==
  Submitted =>
     /\ ~isEditing
     /\ tagsArray = SplitTrim(tagString)
     /\ pending >= Len(calls)

C5_Witness ==
  /\ Submitted
  /\ Len(calls) >= 2
  /\ pending > Len(calls)
  /\ tagsArray # TagStrings(tags)

\* C6: the settling of an add or remove request, with a result or with an
\* error, changes neither the mode, the canonical tags, the buffer, the
\* snapshot nor the spinner flag.
C6_NoRollback ==
  [][pending' < pending =>
       UNCHANGED <<isEditing, tagsArray, tagString, originalTagString,
                   isUpdating>>]_vars

C6_Witness ==
  /\ lastEvent = "settled"
  /\ ~isEditing
  /\ tagsArray # TagStrings(tags)

\* C7: in Viewing the spinner is shown exactly when some add or remove
\* request has not settled yet.
C7_BusyIndicator ==
  ~isEditing => (isUpdating <=> pending > 0)

\* C8: a submit that is not short-circuited sends, for every tag text, as
\* many add requests as the text has occurrences in the parsed buffer when
\* the original lacks it (none otherwise), as many remove requests as it has
\* occurrences in the original when the parsed buffer lacks it (none
\* otherwise), and every request carries one tag name and the record list
\* [datapointId].
C8_OneRequestPerTag ==
  Submitted =>
     LET edited == SplitTrim(tagString)
         original == SplitTrim(originalTagString)
         names == Elements(edited) \cup Elements(original)
                    \cup RequestNames("add") \cup RequestNames("remove")
     IN  /\ \A i \in 1..Len(calls) :
              /\ calls[i].kind \in {"add", "remove"}
              /\ DOMAIN calls[i].variables = {"tagName", "datapointIds"}
              /\ calls[i].variables.datapointIds = <<datapointId>>
         /\ \A t \in names :
              /\ CountCalls("add", t) =
                   IF Includes(original, t) THEN 0 ELSE Count(edited, t)
              /\ CountCalls("remove", t) =
                   IF Includes(edited, t) THEN 0 ELSE Count(original, t)

C8_Witness ==
  /\ Submitted
  /\ \E i, j \in 1..Len(calls) : i < j /\ calls[i] = calls[j]
  /\ RequestNames("add") # {}

\* C9: after the upstream list changed, the canonical tags are the upstream
\* names, the snapshot is their ", "-joined text, and the session is in
\* Editing exactly if it was when the change arrived.
C9_Reinitialization ==
  lastEvent = "reinit" =>
     /\ tagsArray = TagStrings(tags)
     /\ originalTagString = Join(TagStrings(tags))
     /\ (isEditing <=> entry.path = "reinit")

C9_Witness ==
  /\ lastEvent = "reinit"
  /\ isEditing
  /\ Len(tagsArray) = 2
  /\ tagsArray[1] # tagsArray[2]

\* C10: every tag name in an issued request is non-empty and has no
\* whitespace at either end.
C10_WellFormedRequestNames ==
  \A i \in 1..Len(calls) :
     LET name == calls[i].variables.tagName
     IN  /\ name # <<>>
         /\ name[1] \notin Whitespace
         /\ name[Len(name)] \notin Whitespace

\* C11: the texts added are the texts that occur in the parsed buffer and
\* not in the original, the texts removed are those that occur in the
\* original and not in the parsed buffer, whatever the order of either; a
\* buffer that parses to a reordering of the original issues no request.
C11_OrderIndependence ==
  Submitted =>
     LET edited == SplitTrim(tagString)
         original == SplitTrim(originalTagString)
     IN  /\ RequestNames("add") = Elements(edited) \ Elements(original)
         /\ RequestNames("remove") = Elements(original) \ Elements(edited)
         /\ IsPermutation(edited, original) => calls = <<>>

C11_Witness ==
  /\ Submitted
  /\ IsPermutation(SplitTrim(tagString), SplitTrim(originalTagString))
  /\ SplitTrim(tagString) # SplitTrim(originalTagString)
  /\ calls = <<>>

\* C12: for the original and the edited sequence of a submit, toAdd and
\* toRemove share no tag; every element of the original is in exactly one of
\* toRemove and keep, as often as it occurs in the original; no element of
\* toAdd occurs in the original; a sequence reconciled against itself gives
\* an empty toAdd and an empty toRemove.  The requests sent are those of
\* toAdd and toRemove.
C12_DiffPartition ==
  LET edited == SplitTrim(tagString)
      original == SplitTrim(originalTagString)
      toRemove == Without(original, edited)
      toAdd == Without(edited, original)
      keep == Within(original, edited)
  IN  /\ Elements(toAdd) \cap Elements(toRemove) = {}
      /\ Elements(toRemove) \cap Elements(keep) = {}
      /\ \A t \in Elements(original) \cup Elements(toRemove) \cup Elements(keep) :
            Count(toRemove, t) + Count(keep, t) = Count(original, t)
      /\ Len(toRemove) + Len(keep) = Len(original)
      /\ Elements(toAdd) \cap Elements(original) = {}
      /\ Without(original, original) = <<>>
      /\ Without(edited, edited) = <<>>
      /\ Submitted =>
            /\ RequestNames("add") = Elements(toAdd)
            /\ RequestNames("remove") = Elements(toRemove)
            /\ edited = original => calls = <<>>

C12_Witness ==
  LET edited == SplitTrim(tagString)
      original == SplitTrim(originalTagString)
  IN  /\ Submitted
      /\ Without(original, edited) # <<>>
      /\ Without(edited, original) # <<>>
      /\ Within(original, edited) # <<>>
      /\ Len(calls) = 2

\* the positions of the commas of s
CommaPositions(s) == {i \in 1..Len(s) : s[i] = Comma}

\* the k-th comma of s, 0 for k = 0 and Len(s) + 1 past the last one
CommaAt(s, k) ==
  IF k = 0 THEN 0
  ELSE IF k > Cardinality(CommaPositions(s)) THEN Len(s) + 1
  ELSE CHOOSE c \in CommaPositions(s) :
         Cardinality({d \in CommaPositions(s) : d < c}) = k - 1

\* the text between the (i-1)-th and the i-th comma of s
RawPiece(s, i) == SubSeq(s, CommaAt(s, i - 1) + 1, CommaAt(s, i) - 1)

\* piece is raw without its leading and trailing whitespace
IsTrimOf(piece, raw) ==
  /\ piece = <<>> \/ (piece[1] \notin Whitespace /\ piece[Len(piece)] \notin Whitespace)
  /\ \E l \in 0..Len(raw) :
        /\ l + Len(piece) <= Len(raw)
        /\ SubSeq(raw, l + 1, l + Len(piece)) = piece
        /\ \A j \in 1..Len(raw) :
              (j <= l \/ j > l + Len(piece)) => raw[j] \in Whitespace

\* C13: parsing a buffer gives one piece per comma plus one, in buffer order:
\* the i-th piece is the text between the (i-1)-th and the i-th comma without
\* its surrounding whitespace, empty pieces included; a submit that is not
\* short-circuited adopts exactly these pieces.
C13_Parsing ==
  LET pieces == SplitTrim(tagString)
  IN  /\ Len(pieces) = Cardinality(CommaPositions(tagString)) + 1
      /\ \A i \in 1..Len(pieces) : IsTrimOf(pieces[i], RawPiece(tagString, i))
      /\ Submitted => tagsArray = pieces

C13_Witness ==
  /\ Submitted
  /\ Len(tagsArray) = 2
  /\ tagsArray[1] # <<>>
  /\ tagsArray[2] = <<>>
  /\ tagString[1] \in Whitespace

\* C14: only the effect on the upstream list writes the snapshot
\* originalTagString; click, change, submit, blur and a settling request
\* leave it as it is.
C14_SnapshotWrittenByReinitOnly ==
  [][lastEvent' # "reinit" => originalTagString' = originalTagString]_vars

C14_Witness ==
  /\ Submitted
  /\ tagsArray # TagStrings(tags)
  /\ originalTagString = Join(TagStrings(tags))
  /\ originalTagString # Join(tagsArray)

\* C15: an upstream change during Editing puts the serialization of the new
\* list into the buffer and leaves the session in Editing; a submit that
\* follows with no change of the buffer in between issues no request.
C15_ReinitWhileEditing ==
  /\ (lastEvent = "reinit" /\ entry.path = "reinit") =>
        /\ isEditing
        /\ tagString = Join(TagStrings(tags))
  /\ (lastEvent = "submit" /\ entry.path = "reinit") =>
        /\ calls = <<>>
        /\ ~isEditing
        /\ tagsArray = TagStrings(tags)

C15_Witness ==
  /\ lastEvent = "submit"
  /\ entry.path = "reinit"
  /\ calls = <<>>
  /\ Len(tagsArray) = 2
  /\ pending > 0

\* the tag names of the requests of one kind, in the order they were sent
NamesInOrder(kind) ==
  LET idx == SelectSeq([i \in 1..Len(calls) |-> i],
                       LAMBDA i : calls[i].kind = kind)
  IN  [k \in 1..Len(idx) |-> calls[idx[k]].variables.tagName]

\* C16: in a submit every add request is sent before any remove request,
\* the adds in the order of the parsed buffer and the removes in the order
\* of the original; they are all sent, and outstanding, in the step that
\* replaces the canonical tags, and no other handler sends a request.
C16_RequestOrder ==
  /\ Submitted =>
        LET edited == SplitTrim(tagString)
            original == SplitTrim(originalTagString)
        IN  /\ \A i, j \in 1..Len(calls) :
                  (i < j /\ calls[i].kind = "remove") => calls[j].kind = "remove"
            /\ NamesInOrder("add") = Without(edited, original)
            /\ NamesInOrder("remove") = Without(original, edited)
            /\ pending >= Len(calls)
            /\ tagsArray = edited
  /\ lastEvent # "submit" => calls = <<>>

C16_Witness ==
  /\ Submitted
  /\ Len(calls) = 3
  /\ calls[1].kind = "add"
  /\ calls[2].kind = "remove"
  /\ calls[3].kind = "remove"
  /\ calls[2].variables.tagName # calls[3].variables.tagName

====
